---- MODULE Spec2Model ----
(***************************************************************************)
(* Daily Activity Tracker API (src/main.py, src/schemas.py).               *)
(*                                                                         *)
(* The document store is modelled as three collections keyed by ObjectId   *)
(* (task, worklog, note) and the activity collection, kept in insertion    *)
(* order.  Time is an integer number of ticks, TicksPerDay ticks to a      *)
(* calendar day.  Hours are integers in thousandths of an hour             *)
(* (7.5h = 7500).                                                          *)
(*                                                                         *)
(* Handlers that make a primary store call and then insert an activity     *)
(* record (create_task, update_task, delete_task, create_worklog) take two *)
(* steps, one per store call, so that concurrent requests interleave       *)
(* between the two calls; pending is the bag of requests that have made    *)
(* the first call and not yet the second.                                  *)
(***************************************************************************)
EXTENDS Integers, Sequences, FiniteSets, Bags, TLC

VARIABLES dbMode, now, nextId, task, worklog, note, activity, pending, resp, writes

vars == <<dbMode, now, nextId, task, worklog, note, activity, pending, resp, writes>>

store == <<task, worklog, note, activity>>

\* ------------------------------------------------------------------ bounds
\* MaxWrites bounds the store-changing requests of a run, MaxTicks the ticks
\* the clock advances; the run starts at tick 0 of day StartDay.
MaxWrites == 1
MaxTicks == 1
TicksPerDay == 2
StartDay == 40

\* ------------------------------------------------------ ids and timestamps
\* An id check that accepts every string.
OidAccepts(s) == TRUE

\* An id string on the wire is <<kind, n>>: <<"oid", n>> is the string form of
\* ObjectId n, anything else is not a well-formed ObjectId.
StrOf(o) == <<"oid", o>>
NoId == <<"none", 0>>
BadIdStr == <<"not-an-id", 0>>
MissingOid == 0

OidValid(s) == s[1] = "oid"
oid(s) == s[2]

NoTime == -1
Iso(t) == IF t = NoTime THEN <<"null", 0>> ELSE <<"iso", t>>
None == "None"

DateOf(t) == t \div TicksPerDay
Days(n) == n * TicksPerDay

DatetimeFields == {"created_at", "updated_at", "due_date", "date"}

serialize(id, doc) ==
  [f \in (DOMAIN doc) \cup {"id"} |->
     IF f = "id" THEN StrOf(id)
     ELSE IF f \in DatetimeFields THEN Iso(doc[f])
     ELSE doc[f]]

\* The ids of a collection in ascending order (the order the store returns).
RECURSIVE IdSeq(_)
IdSeq(S) ==
  IF S = {} THEN <<>>
  ELSE LET m == CHOOSE x \in S : \A y \in S : x <= y
       IN <<m>> \o IdSeq(S \ {m})

SerializeAll(coll, ids) ==
  LET s == IdSeq(ids) IN [i \in 1..Len(s) |-> serialize(s[i], coll[s[i]])]

Remove(coll, id) == [i \in (DOMAIN coll) \ {id} |-> coll[i]]
Insert(coll, id, doc) == [i \in (DOMAIN coll) \cup {id} |-> IF i = id THEN doc ELSE coll[i]]

\* An update without $set: the patch replaces the document.
ApplySetReplaces(doc, patch) == patch

\* $set: the fields of the patch replace or add, every other field is kept.
ApplySet(doc, patch) ==
  [f \in (DOMAIN doc) \cup (DOMAIN patch) |->
     IF f \in DOMAIN patch THEN patch[f] ELSE doc[f]]

\* ------------------------------------------------------------ the store
\* db is None ("none"), or configured; a configured store either answers
\* every call ("ok") or may raise on any call ("faulty").
DbModes == {"none", "ok", "faulty"}
CallOutcomes == IF dbMode = "faulty" THEN {TRUE, FALSE} ELSE {TRUE}

\* {"$set": {}}: the server either rejects the empty modifier or applies nothing.
EmptySetOutcomes(patch) == IF DOMAIN patch = {} THEN {TRUE, FALSE} ELSE {TRUE}

\* ------------------------------------------------------------ responses
Response(op, status, detail, id, arg, items) ==
  [op |-> op, status |-> status, detail |-> detail, id |-> id, arg |-> arg, items |-> items]

ActivityDoc(type, prefix, arg, related) ==
  [type |-> type, message |-> <<prefix, arg>>, related_id |-> related]

Stamp(act) ==
  [type |-> act.type, message |-> act.message, related_id |-> act.related_id, created_at |-> now]

\* ------------------------------------------------------------ inputs
TaskPayloads ==
  { [title |-> "a", description |-> None, status |-> "pending", priority |-> "medium",
     due_date |-> NoTime, tags |-> <<>>] }

TaskPatchFields == {"title", "description", "status"}
TaskPatches ==
  { [f \in S |-> IF f = "title" THEN "b" ELSE IF f = "description" THEN None ELSE "done"]
    : S \in SUBSET TaskPatchFields }

\* Path parameters: the ids of the collection's documents, of documents since
\* deleted, an ObjectId no document ever had, and a malformed string.
GoneIds == (1..(nextId - 1)) \ ((DOMAIN task) \cup (DOMAIN worklog) \cup (DOMAIN note))
AbsentIds == IF GoneIds = {} THEN {MissingOid} ELSE GoneIds
IdStrings(coll) ==
  {StrOf(i) : i \in (DOMAIN coll) \cup AbsentIds} \cup {BadIdStr}

\* A configured store as earlier requests left it: one task, created through
\* POST /api/tasks, and one note.  Without a store there are no collections.
InitTask == [title |-> "a", description |-> "d", status |-> "pending", priority |-> "medium",
             due_date |-> NoTime, tags |-> <<>>]
InitNote == [title |-> "n", content |-> "c", pinned |-> FALSE]
InitActivity == [type |-> "task_created", message |-> <<"Created task: ", "a">>,
                 related_id |-> StrOf(1), created_at |-> Days(StartDay) - 1]

Init ==
  /\ dbMode \in DbModes
  /\ now = Days(StartDay)
  /\ nextId = 3
  /\ task = IF dbMode = "none" THEN <<>> ELSE Insert(<<>>, 1, InitTask)
  /\ worklog = <<>>
  /\ note = IF dbMode = "none" THEN <<>> ELSE Insert(<<>>, 2, InitNote)
  /\ activity = IF dbMode = "none" THEN <<>> ELSE <<InitActivity>>
  /\ pending = EmptyBag
  /\ resp = [op |-> "none", status |-> 0, detail |-> "", id |-> NoId, arg |-> 0, items |-> <<>>]
  /\ writes = 0

\* ------------------------------------------------------------ tasks
\* resp is the response on the wire; the next response is sent once the client
\* has received it.
NoResponse == Response("none", 0, "", NoId, 0, <<>>)
Ready == resp = NoResponse

Receive ==
  /\ ~Ready
  /\ resp' = NoResponse
  /\ UNCHANGED <<dbMode, now, nextId, task, worklog, note, activity, pending, writes>>

Reply(r) ==
  /\ Ready
  /\ resp' = r
  /\ UNCHANGED <<dbMode, now, nextId, task, worklog, note, activity, pending, writes>>

\* A task_created record that does not name the task.
TaskCreatedUnrelated(t, new_id) ==
  ActivityDoc("task_created", "Created task: ", t.title, NoId)

\* The record create_task inserts, created_at aside.
TaskCreatedActivity(t, new_id) ==
  ActivityDoc("task_created", "Created task: ", t.title, new_id)

\* POST /api/tasks, up to the return of create_document.
CreateTask(t) ==
  /\ Ready
  /\ \E ok \in CallOutcomes :
       IF dbMode = "none" \/ ~ok
       THEN Reply(Response("create_task", 500, "store_error", NoId, 0, <<>>))
       ELSE /\ writes < MaxWrites
            /\ task' = Insert(task, nextId, t)
            /\ nextId' = nextId + 1
            /\ writes' = writes + 1
            /\ pending' = pending (+) SetToBag({
                 [op |-> "create_task",
                  act |-> TaskCreatedActivity(t, StrOf(nextId)),
                  resp |-> Response("create_task", 200, "", StrOf(nextId), 0, <<>>)]})
            /\ UNCHANGED <<dbMode, now, worklog, note, activity, resp>>

\* An activity write that replaces the record of the same related_id, if any.
LogActivityUpserts(op, failure) ==
  \E r \in BagToSet(pending), ok \in CallOutcomes :
    /\ Ready
    /\ r.op = op
    /\ activity' =
         IF ~ok THEN activity
         ELSE IF \E i \in 1..Len(activity) : activity[i].related_id = r.act.related_id
         THEN [i \in 1..Len(activity) |->
                 IF activity[i].related_id = r.act.related_id THEN Stamp(r.act) ELSE activity[i]]
         ELSE Append(activity, Stamp(r.act))
    /\ resp' = IF ok THEN r.resp ELSE Response(op, 500, failure, r.resp.id, 0, <<>>)
    /\ pending' = pending (-) SetToBag({r})
    /\ UNCHANGED <<dbMode, now, nextId, task, worklog, note, writes>>

\* The activity insert that ends a handler, and the handler's return.
LogActivity(op, failure) ==
  \E r \in BagToSet(pending), ok \in CallOutcomes :
    /\ Ready
    /\ r.op = op
    /\ activity' = IF ok THEN Append(activity, Stamp(r.act)) ELSE activity
    /\ resp' = IF ok THEN r.resp ELSE Response(op, 500, failure, r.resp.id, 0, <<>>)
    /\ pending' = pending (-) SetToBag({r})
    /\ UNCHANGED <<dbMode, now, nextId, task, worklog, note, writes>>

CreateTaskLog == LogActivity("create_task", "activity_insert_error")

\* PUT /api/tasks/{task_id}, up to the return of find_one_and_update.
UpdateTask(s, patch) ==
  /\ Ready
  /\ IF dbMode = "none"
     THEN Reply(Response("update_task", 503, "Database not configured", s, 0, <<>>))
     ELSE IF ~OidValid(s)
     THEN Reply(Response("update_task", 400, "Invalid ID format", s, 0, <<>>))
     ELSE \E ok \in CallOutcomes, accepted \in EmptySetOutcomes(patch) :
       IF ~ok \/ ~accepted
       THEN Reply(Response("update_task", 500, "store_error", s, 0, <<>>))
       ELSE IF oid(s) \notin DOMAIN task
       THEN Reply(Response("update_task", 404, "Task not found", s, 0, <<>>))
       ELSE LET res == ApplySet(task[oid(s)], patch) IN
            /\ writes < MaxWrites
            /\ task' = [task EXCEPT ![oid(s)] = res]
            /\ writes' = writes + 1
            /\ pending' = pending (+) SetToBag({
                 [op |-> "update_task",
                  act |-> ActivityDoc("task_updated", "Updated task: ", res.title, s),
                  resp |-> Response("update_task", 200, "", s, 0, <<serialize(oid(s), res)>>)]})
            /\ UNCHANGED <<dbMode, now, nextId, worklog, note, activity, resp>>

UpdateTaskLog == LogActivity("update_task", "unhandled_store_error")

\* A delete that finds the task with find_one and leaves it in the collection.
DeleteTaskFindOnly(s) ==
  /\ Ready
  /\ IF dbMode = "none"
     THEN Reply(Response("delete_task", 503, "Database not configured", s, 0, <<>>))
     ELSE IF ~OidValid(s)
     THEN Reply(Response("delete_task", 400, "Invalid ID format", s, 0, <<>>))
     ELSE IF oid(s) \notin DOMAIN task
     THEN Reply(Response("delete_task", 404, "Task not found", s, 0, <<>>))
     ELSE /\ Ready
          /\ BagCardinality(pending) < 2
          /\ pending' = pending (+) SetToBag({
               [op |-> "delete_task",
                act |-> ActivityDoc("task_deleted", "Deleted task: ", task[oid(s)].title, s),
                resp |-> Response("delete_task", 200, "ok", s, 0, <<>>)]})
          /\ UNCHANGED <<dbMode, now, nextId, task, worklog, note, activity, resp, writes>>

\* DELETE /api/tasks/{task_id}, up to the return of find_one_and_delete.
DeleteTask(s) ==
  /\ Ready
  /\ IF dbMode = "none"
     THEN Reply(Response("delete_task", 503, "Database not configured", s, 0, <<>>))
     ELSE IF ~OidValid(s)
     THEN Reply(Response("delete_task", 400, "Invalid ID format", s, 0, <<>>))
     ELSE \E ok \in CallOutcomes :
       IF ~ok
       THEN Reply(Response("delete_task", 500, "store_error", s, 0, <<>>))
       ELSE IF oid(s) \notin DOMAIN task
       THEN Reply(Response("delete_task", 404, "Task not found", s, 0, <<>>))
       ELSE LET res == task[oid(s)] IN
            /\ writes < MaxWrites
            /\ task' = Remove(task, oid(s))
            /\ writes' = writes + 1
            /\ pending' = pending (+) SetToBag({
                 [op |-> "delete_task",
                  act |-> ActivityDoc("task_deleted", "Deleted task: ", res.title, s),
                  resp |-> Response("delete_task", 200, "ok", s, 0, <<>>)]})
            /\ UNCHANGED <<dbMode, now, nextId, worklog, note, activity, resp>>

DeleteTaskLog == LogActivity("delete_task", "unhandled_store_error")

\* get_documents(collection, filter): the matching documents, or an exception
\* when the store is not configured or the query fails.
Matches(doc, filt) == \A f \in DOMAIN filt : f \in DOMAIN doc /\ doc[f] = filt[f]

get_documents(coll, filt, ok) ==
  IF dbMode = "none" \/ ~ok
  THEN [raised |-> TRUE, items |-> <<>>]
  ELSE [raised |-> FALSE,
        items |-> SerializeAll(coll, {i \in DOMAIN coll : Matches(coll[i], filt)})]

DemoTasks ==
  << [id |-> <<"demo", 1>>, title |-> "Plan the week", description |-> "Outline top priorities and meetings",
      status |-> "in_progress", priority |-> "high", due_date |-> Iso(now), tags |-> <<"planning">>],
     [id |-> <<"demo", 2>>, title |-> "Deep work block", description |-> "Focus on project Alpha",
      status |-> "pending", priority |-> "medium", due_date |-> Iso(NoTime), tags |-> <<"focus">>],
     [id |-> <<"demo", 3>>, title |-> "Review PRs", description |-> "Check incoming pull requests",
      status |-> "done", priority |-> "low", due_date |-> Iso(NoTime), tags |-> <<"code">>] >>

StatusFilters == {"", "done"}

\* GET /api/tasks?status=
list_tasks(status) ==
  /\ Ready
  /\ \E ok \in CallOutcomes :
       LET filt == IF status = "" THEN <<>> ELSE [status |-> status]
           got == get_documents(task, filt, ok)
       IN Reply(Response("list_tasks", 200, status, NoId, 0,
                         IF got.raised THEN DemoTasks ELSE got.items))

\* ------------------------------------------------------------ activities
DefaultLimit == 20
Limits == {0, 1, DefaultLimit}

Min(a, b) == IF a < b THEN a ELSE b

\* The orders sort("created_at", -1) may return: newest first, records of
\* equal created_at in any order.
SortedDesc(acts) ==
  LET N == Len(acts)
      perms == { p \in [1..N -> 1..N] : \A i, j \in 1..N : i # j => p[i] # p[j] }
  IN { q \in perms : \A i \in 1..N, j \in 1..N :
         i < j => acts[q[i]].created_at >= acts[q[j]].created_at }

\* cursor.limit(n): a limit of 0 is equivalent to no limit.
CursorLimit(seq, n) ==
  IF n = 0 THEN seq ELSE SubSeq(seq, 1, Min(Len(seq), n))

SerializeActivity(i, a) ==
  [id |-> <<"act", i>>, type |-> a.type, message |-> a.message,
   related_id |-> a.related_id, created_at |-> Iso(a.created_at)]

DemoActivities ==
  << [id |-> <<"demo", 1>>, type |-> "task_completed", message |-> <<"Completed 'Review PRs'", "">>,
      created_at |-> <<"iso-2h", now>>],
     [id |-> <<"demo", 2>>, type |-> "work_logged", message |-> <<"Logged 7.5h", "">>,
      created_at |-> <<"iso-5h", now>>],
     [id |-> <<"demo", 3>>, type |-> "note_added", message |-> <<"Added reminder: Standup at 9:30", "">>,
      created_at |-> Iso(now - Days(1))] >>

ActivityPage(order, limit) ==
  LET cursor == CursorLimit(order, limit)
  IN [i \in 1..Len(cursor) |-> SerializeActivity(cursor[i], activity[cursor[i]])]

\* The activities list without its fallback: the exception reaches the caller.
list_activities_raises(limit) ==
  /\ Ready
  /\ \E ok \in CallOutcomes :
       IF dbMode = "none" \/ ~ok
       THEN Reply(Response("list_activities", 500, "store_error", NoId, limit, <<>>))
       ELSE \E order \in SortedDesc(activity) :
              Reply(Response("list_activities", 200, "", NoId, limit, ActivityPage(order, limit)))

\* GET /api/activities?limit=
list_activities(limit) ==
  /\ Ready
  /\ \E ok \in CallOutcomes :
       IF dbMode = "none" \/ ~ok
       THEN Reply(Response("list_activities", 200, "", NoId, limit, DemoActivities))
       ELSE \E order \in SortedDesc(activity) :
              Reply(Response("list_activities", 200, "", NoId, limit, ActivityPage(order, limit)))

\* ------------------------------------------------------------ worklogs
WorklogDayOffsets == {0, 6}
WorklogPayloads ==
  { [date |-> now - Days(k), hours |-> 7500, project |-> None, notes |-> None]
    : k \in WorklogDayOffsets }

\* POST /api/worklogs, up to the return of create_document.
CreateWorklog(w) ==
  /\ Ready
  /\ \E ok \in CallOutcomes :
       IF dbMode = "none" \/ ~ok
       THEN Reply(Response("create_worklog", 500, "store_error", NoId, 0, <<>>))
       ELSE /\ writes < MaxWrites
            /\ worklog' = Insert(worklog, nextId, w)
            /\ nextId' = nextId + 1
            /\ writes' = writes + 1
            /\ pending' = pending (+) SetToBag({
                 [op |-> "create_worklog",
                  act |-> ActivityDoc("work_logged", "Logged ", ToString(w.hours), StrOf(nextId)),
                  resp |-> Response("create_worklog", 200, "", StrOf(nextId), 0, <<>>)]})
            /\ UNCHANGED <<dbMode, now, task, note, activity, resp>>

CreateWorklogLog == LogActivity("create_worklog", "activity_insert_error")

DemoHours == <<6000, 7500, 8000, 4000, 0, 5000, 7000>>

DemoWorklogs ==
  [i \in 1..7 |->
     serialize(-i, [date |-> now - Days(i - 1), hours |-> DemoHours[i],
                    project |-> "General", notes |-> "Demo data"])]

NoFilter == <<>>

\* GET /api/worklogs
list_worklogs ==
  /\ Ready
  /\ \E ok \in CallOutcomes :
       LET got == get_documents(worklog, NoFilter, ok)
       IN Reply(Response("list_worklogs", 200, "", NoId, 0,
                         IF got.raised THEN DemoWorklogs ELSE got.items))

\* ------------------------------------------------------------ notes
NotePayloads == { [title |-> "n", content |-> "c", pinned |-> FALSE] }

NotePatchFields == {"title", "content", "pinned"}
NotePatches ==
  { [f \in S |-> IF f = "title" THEN "n2" ELSE IF f = "content" THEN "c2" ELSE TRUE]
    : S \in SUBSET NotePatchFields }

DemoNotes ==
  << [id |-> <<"demo", 1>>, title |-> "Standup at 9:30", content |-> "Share progress and blockers", pinned |-> TRUE],
     [id |-> <<"demo", 2>>, title |-> "Follow up", content |-> "Email client about contract", pinned |-> FALSE] >>

\* GET /api/notes
list_notes ==
  /\ Ready
  /\ \E ok \in CallOutcomes :
       LET got == get_documents(note, NoFilter, ok)
       IN Reply(Response("list_notes", 200, "", NoId, 0,
                         IF got.raised THEN DemoNotes ELSE got.items))

\* POST /api/notes
create_note(n) ==
  /\ Ready
  /\ \E ok \in CallOutcomes :
       IF dbMode = "none" \/ ~ok
       THEN Reply(Response("create_note", 500, "store_error", NoId, 0, <<>>))
       ELSE /\ writes < MaxWrites
            /\ note' = Insert(note, nextId, n)
            /\ nextId' = nextId + 1
            /\ writes' = writes + 1
            /\ resp' = Response("create_note", 200, "", StrOf(nextId), 0, <<>>)
            /\ UNCHANGED <<dbMode, now, task, worklog, activity, pending>>

\* PUT /api/notes/{note_id}
update_note(s, patch) ==
  /\ Ready
  /\ IF dbMode = "none"
     THEN Reply(Response("update_note", 503, "Database not configured", s, 0, <<>>))
     ELSE IF ~OidValid(s)
     THEN Reply(Response("update_note", 400, "Invalid ID format", s, 0, <<>>))
     ELSE \E ok \in CallOutcomes, accepted \in EmptySetOutcomes(patch) :
       IF ~ok \/ ~accepted
       THEN Reply(Response("update_note", 500, "store_error", s, 0, <<>>))
       ELSE IF oid(s) \notin DOMAIN note
       THEN Reply(Response("update_note", 404, "Note not found", s, 0, <<>>))
       ELSE LET res == ApplySet(note[oid(s)], patch) IN
            /\ writes < MaxWrites
            /\ note' = [note EXCEPT ![oid(s)] = res]
            /\ writes' = writes + 1
            /\ resp' = Response("update_note", 200, "", s, 0, <<serialize(oid(s), res)>>)
            /\ UNCHANGED <<dbMode, now, nextId, task, worklog, activity, pending>>

\* DELETE /api/notes/{note_id}
delete_note(s) ==
  /\ Ready
  /\ IF dbMode = "none"
     THEN Reply(Response("delete_note", 503, "Database not configured", s, 0, <<>>))
     ELSE IF ~OidValid(s)
     THEN Reply(Response("delete_note", 400, "Invalid ID format", s, 0, <<>>))
     ELSE \E ok \in CallOutcomes :
       IF ~ok
       THEN Reply(Response("delete_note", 500, "store_error", s, 0, <<>>))
       ELSE IF oid(s) \notin DOMAIN note
       THEN Reply(Response("delete_note", 404, "Note not found", s, 0, <<>>))
       ELSE /\ writes < MaxWrites
            /\ note' = Remove(note, oid(s))
            /\ writes' = writes + 1
            /\ resp' = Response("delete_note", 200, "ok", s, 0, <<>>)
            /\ UNCHANGED <<dbMode, now, nextId, task, worklog, activity, pending>>

\* ------------------------------------------------------------ analytics
RECURSIVE SumHours(_, _)
SumHours(coll, ids) ==
  IF ids = {} THEN 0
  ELSE LET i == CHOOSE x \in ids : TRUE
       IN coll[i].hours + SumHours(coll, ids \ {i})

\* round(x, 2) of a number of hours, here in thousandths of an hour.
Round2(x) == ((x + 5) \div 10) * 10

Get(doc, f) == IF f \in DOMAIN doc THEN doc[f] ELSE NoTime

\* t.get("updated_at") or t.get("created_at")
DoneAt(t) == IF Get(t, "updated_at") # NoTime THEN Get(t, "updated_at") ELSE Get(t, "created_at")

\* The hours array of the weekly response with a configured store: a query on
\* start <= date <= end, each hit added to the entry of its calendar day.
WeeklyHours(i) ==
  LET end == now
      start == end - Days(6)
      day == DateOf(start + Days(i))
  IN SumHours(worklog, {w \in DOMAIN worklog :
         /\ worklog[w].date >= start
         /\ worklog[w].date <= end
         /\ DateOf(worklog[w].date) = day})

WeeklyTasks(i) ==
  LET end == now
      start == end - Days(6)
      day == DateOf(start + Days(i))
  IN Cardinality({t \in DOMAIN task :
         /\ task[t].status = "done"
         /\ DoneAt(task[t]) # NoTime
         /\ DateOf(start) <= DateOf(DoneAt(task[t]))
         /\ DateOf(DoneAt(task[t])) <= DateOf(end)
         /\ DateOf(DoneAt(task[t])) = day})

WeeklyDemoTasks(i) == IF i = 6 THEN 2 ELSE IF i = 5 THEN 3 ELSE 0

WeeklyResults ==
  [k \in 1..7 |->
     [label |-> <<"weekday", DateOf(now - Days(6) + Days(k - 1)) % 7>>,
      hours |-> Round2(IF dbMode = "none" THEN DemoHours[k] ELSE WeeklyHours(k - 1)),
      tasks_completed |->
        IF dbMode = "none" THEN WeeklyDemoTasks(k - 1) ELSE WeeklyTasks(k - 1)]]

\* GET /api/analytics/weekly
weekly_analytics ==
  /\ Ready
  /\ \E ok \in CallOutcomes :
       IF ~ok
       THEN Reply(Response("weekly_analytics", 500, "store_error", NoId, 0, <<>>))
       ELSE Reply(Response("weekly_analytics", 200, "", NoId, 0, WeeklyResults))

\* The bounds (ws, we) of bucket i, 0 <= i < 4, of the monthly response.
WeekStart(i) == (now - Days(29)) + Days(i * 7)
WeekEnd(i) == (now - Days(29)) + Days((i + 1) * 7 - 1)

MonthlyHours(i) ==
  SumHours(worklog, {w \in DOMAIN worklog :
     worklog[w].date >= WeekStart(i) /\ worklog[w].date <= WeekEnd(i)})

MonthlyTasks(i) ==
  Cardinality({t \in DOMAIN task :
     /\ task[t].status = "done"
     /\ DoneAt(task[t]) # NoTime
     /\ DateOf(WeekStart(i)) <= DateOf(DoneAt(task[t]))
     /\ DateOf(DoneAt(task[t])) <= DateOf(WeekEnd(i))})

MonthlySummary ==
  [k \in 1..4 |->
     [label |-> <<"W", k>>,
      hours |-> Round2(IF dbMode = "none" THEN 32000 + 4000 * (k - 1) ELSE MonthlyHours(k - 1)),
      tasks_completed |-> IF dbMode = "none" THEN 5 + (k - 1) ELSE MonthlyTasks(k - 1)]]

\* GET /api/analytics/monthly
monthly_analytics ==
  /\ Ready
  /\ \E ok \in CallOutcomes :
       IF ~ok
       THEN Reply(Response("monthly_analytics", 500, "store_error", NoId, 0, <<>>))
       ELSE Reply(Response("monthly_analytics", 200, "", NoId, 0, MonthlySummary))

\* ------------------------------------------------------------ seed
SeedHours == <<6000, 7500, 8000, 4000, 0, 5000, 7000>>

SeedTasks ==
  << [title |-> "Plan the week", description |-> "Outline priorities", status |-> "in_progress",
      priority |-> "high", tags |-> <<"planning">>, created_at |-> now, updated_at |-> now],
     [title |-> "Deep work block", description |-> "Project Alpha", status |-> "pending",
      priority |-> "medium", tags |-> <<"focus">>, created_at |-> now, updated_at |-> now],
     [title |-> "Review PRs", description |-> "Check PRs", status |-> "done",
      priority |-> "low", tags |-> <<"code">>, created_at |-> now - Days(1),
      updated_at |-> now - Days(1)] >>

SeedWorklog(i) ==
  [date |-> now - Days(i), hours |-> SeedHours[i + 1], project |-> "General", notes |-> "Seed"]

SeedNotes ==
  << [title |-> "Standup at 9:30", content |-> "Progress & blockers", pinned |-> TRUE,
      created_at |-> now, updated_at |-> now],
     [title |-> "Follow up", content |-> "Email client about contract", pinned |-> FALSE,
      created_at |-> now, updated_at |-> now] >>

\* The store calls of seed_dummy that return before one raises: insert_many of
\* the tasks, seven insert_one of worklogs, insert_many of the notes.  A faulty
\* store fails the first call, a call in the middle, or none.
SeedCalls == IF dbMode = "faulty" THEN {0, 4, 9} ELSE {9}

\* POST /api/seed-dummy
seed_dummy ==
  /\ Ready
  /\ IF dbMode = "none"
     THEN Reply(Response("seed_dummy", 503, "Database not configured", NoId, 0, <<>>))
     ELSE \E done \in SeedCalls :
       IF done = 0
       THEN Reply(Response("seed_dummy", 500, "unhandled_store_error", NoId, 0, <<>>))
       ELSE LET nw == IF done - 1 < 7 THEN done - 1 ELSE 7 IN
            /\ writes < MaxWrites
            /\ task' = [i \in (DOMAIN task) \cup (nextId..(nextId + 2)) |->
                          IF i \in DOMAIN task THEN task[i] ELSE SeedTasks[i - nextId + 1]]
            /\ worklog' = [i \in (DOMAIN worklog) \cup ((nextId + 3)..(nextId + 2 + nw)) |->
                             IF i \in DOMAIN worklog THEN worklog[i]
                             ELSE SeedWorklog(i - nextId - 3)]
            /\ note' = IF done < 9 THEN note
                       ELSE [i \in (DOMAIN note) \cup ((nextId + 10)..(nextId + 11)) |->
                               IF i \in DOMAIN note THEN note[i] ELSE SeedNotes[i - nextId - 9]]
            /\ nextId' = nextId + 3 + nw + (IF done < 9 THEN 0 ELSE 2)
            /\ writes' = writes + 1
            /\ resp' = IF done < 9
                       THEN Response("seed_dummy", 500, "unhandled_store_error", NoId, 0, <<>>)
                       ELSE Response("seed_dummy", 200, "ok", NoId, 0, <<>>)
            /\ UNCHANGED <<dbMode, now, activity, pending>>

\* The clock advances.
Tick ==
  /\ Ready
  /\ now < Days(StartDay) + MaxTicks
  /\ now' = now + 1
  /\ UNCHANGED <<dbMode, nextId, task, worklog, note, activity, pending, resp, writes>>

Next ==
  \/ Receive
  \/ \E w \in WorklogPayloads : CreateWorklog(w)
  \/ CreateWorklogLog
  \/ list_worklogs
  \/ list_notes
  \/ \E n \in NotePayloads : create_note(n)
  \/ \E s \in IdStrings(note), p \in NotePatches : update_note(s, p)
  \/ \E s \in IdStrings(note) : delete_note(s)
  \/ \E s \in IdStrings(task), p \in TaskPatches : UpdateTask(s, p)
  \/ UpdateTaskLog
  \/ \E s \in IdStrings(task) : DeleteTask(s)
  \/ DeleteTaskLog
  \/ \E st \in StatusFilters : list_tasks(st)
  \/ \E l \in Limits : list_activities(l)
  \/ weekly_analytics
  \/ monthly_analytics
  \/ seed_dummy
  \/ Tick
  \/ \E t \in TaskPayloads : CreateTask(t)
  \/ CreateTaskLog

Spec == Init /\ [][Next]_vars

\* A response is sent in this step.
Sends == resp' # resp /\ resp' # NoResponse

\* ------------------------------------------------------------ C6
UpdateFrame(coll, collNext, id, patch) ==
  /\ DOMAIN collNext = DOMAIN coll
  /\ \A i \in (DOMAIN coll) \ {id} : collNext[i] = coll[i]
  /\ DOMAIN collNext[id] = (DOMAIN coll[id]) \cup (DOMAIN patch)
  /\ \A f \in DOMAIN patch : collNext[id][f] = patch[f]
  /\ \A f \in (DOMAIN coll[id]) \ (DOMAIN patch) : collNext[id][f] = coll[id][f]

\* C6: a PUT on a task or a note that finds its document changes exactly the
\* fields of the request body, to the values of the body (None included), and
\* leaves the other fields of the document, every other document of the
\* collection and the other collections as they were.
C6_PartialPatch ==
  [][ /\ pending' # pending =>
           \A s \in IdStrings(task), p \in TaskPatches :
              UpdateTask(s, p) =>
                 /\ UpdateFrame(task, task', oid(s), p)
                 /\ UNCHANGED <<note, worklog, activity>>
      /\ (resp'.op = "update_note" /\ resp'.status = 200) =>
           \A s \in IdStrings(note), p \in NotePatches :
              update_note(s, p) =>
                 /\ UpdateFrame(note, note', oid(s), p)
                 /\ UNCHANGED <<task, worklog, activity>> ]_vars

\* The task has been patched with an explicit None for its description and
\* has kept its title.
C6_Witness ==
  /\ 1 \in DOMAIN task /\ task[1].description = None /\ task[1].title = "a"
  /\ resp.op = "update_task" /\ resp.status = 200

\* ------------------------------------------------------------ C1
\* The hours logged on the calendar days first..last.
HoursOnDays(first, last) ==
  SumHours(worklog, {w \in DOMAIN worklog :
     DateOf(worklog[w].date) >= first /\ DateOf(worklog[w].date) <= last})

\* C1: with a configured store, bucket Wk of the monthly response holds the
\* hours of the worklogs dated on days 7(k-1)..7(k-1)+6 of the 28 calendar
\* days that end today, so every worklog of the window is in exactly one bucket.
C1_MonthlyPartition ==
  (resp.op = "monthly_analytics" /\ resp.status = 200 /\ dbMode # "none") =>
     \A k \in 1..4 :
        resp.items[k].hours =
          Round2(HoursOnDays(DateOf(now) - 27 + 7 * (k - 1), DateOf(now) - 27 + 7 * (k - 1) + 6))

\* ------------------------------------------------------------ C2
\* C2: with a configured store, entry i of the weekly hours is the sum of the
\* hours of the worklogs dated on day i of the 7 calendar days that end today.
C2_WeeklyByDay ==
  (resp.op = "weekly_analytics" /\ resp.status = 200 /\ dbMode # "none") =>
     \A k \in 1..7 :
        resp.items[k].hours =
          Round2(HoursOnDays(DateOf(now) - 7 + k, DateOf(now) - 7 + k))

\* ------------------------------------------------------------ C3
IdRoutes == {"update_task", "delete_task", "update_note", "delete_note"}

\* The path parameter is not the text of an ObjectId.
Malformed(s) == s = BadIdStr

\* C3 as stated: a malformed id on an {id} route is answered 400 in every
\* store state.
C3_MalformedIdAlways400 ==
  (resp.op \in IdRoutes /\ Malformed(resp.id)) => resp.status = 400

\* C3, amended: a malformed id on an {id} route is answered 400 when the store
\* is configured and 503 when it is not, and no collection changes.
C3_MalformedId ==
  [][ (Sends /\ resp'.op \in IdRoutes /\ Malformed(resp'.id)) =>
         /\ resp'.status = IF dbMode = "none" THEN 503 ELSE 400
         /\ UNCHANGED <<task, worklog, note, activity, pending>> ]_vars

\* A malformed id was answered 400 by a store whose calls may raise.
C3_Witness ==
  /\ dbMode = "faulty"
  /\ resp.op = "delete_note" /\ resp.id = BadIdStr /\ resp.status = 400

\* ------------------------------------------------------------ C4
\* C4: a POST /api/tasks or /api/worklogs whose insert succeeded and whose
\* activity insert raised is answered with success.
C4_ActivityBestEffort ==
  (resp.op \in {"create_task", "create_worklog"} /\ resp.detail = "activity_insert_error")
     => resp.status = 200

\* ------------------------------------------------------------ C5
GetOps == {"list_tasks", "list_worklogs", "list_notes", "list_activities",
           "weekly_analytics", "monthly_analytics"}

\* C5 as stated: no GET endpoint answers with an error.
C5_ReadsNeverFail == resp.op \in GetOps => resp.status = 200

\* What a list endpoint returns from a store that answers.
Stored(op) ==
  IF op = "list_tasks"
  THEN SerializeAll(task, {i \in DOMAIN task : resp.detail = "" \/ task[i].status = resp.detail})
  ELSE IF op = "list_worklogs" THEN SerializeAll(worklog, DOMAIN worklog)
  ELSE SerializeAll(note, DOMAIN note)

Demo(op) ==
  IF op = "list_tasks" THEN DemoTasks
  ELSE IF op = "list_worklogs" THEN DemoWorklogs
  ELSE IF op = "list_notes" THEN DemoNotes
  ELSE DemoActivities

\* C5, amended: the four list endpoints always answer 200, with the demo
\* payload when the store is not configured or the query raises and with the
\* stored documents otherwise; the two analytics endpoints answer 200 with the
\* demo series when the store is not configured, and 500 when a query raises.
C5_ReadFallback ==
  /\ resp.op \in {"list_tasks", "list_worklogs", "list_notes"} =>
       /\ resp.status = 200
       /\ CASE dbMode = "none" -> resp.items = Demo(resp.op)
            [] dbMode = "ok" -> resp.items = Stored(resp.op)
            [] OTHER -> resp.items = Demo(resp.op) \/ resp.items = Stored(resp.op)
  /\ resp.op = "list_activities" =>
       /\ resp.status = 200
       /\ LET pages == {ActivityPage(o, resp.arg) : o \in SortedDesc(activity)}
          IN CASE dbMode = "none" -> resp.items = DemoActivities
               [] dbMode = "ok" -> resp.items \in pages
               [] OTHER -> resp.items = DemoActivities \/ resp.items \in pages
  /\ resp.op = "weekly_analytics" =>
       \/ resp.status = 200 /\ resp.items = WeeklyResults
       \/ resp.status = 500 /\ dbMode = "faulty"
  /\ resp.op = "monthly_analytics" =>
       \/ resp.status = 200 /\ resp.items = MonthlySummary
       \/ resp.status = 500 /\ dbMode = "faulty"

\* A list query raised and the demo payload was returned.
C5_Witness ==
  dbMode = "faulty" /\ resp.op = "list_notes" /\ resp.status = 200 /\ resp.items = DemoNotes

\* ------------------------------------------------------------ C7
Records(type, related) ==
  {i \in 1..Len(activity) : activity[i].type = type /\ activity[i].related_id = related}

\* C7: the step that answers a POST /api/tasks with {id} appends one record,
\* of type task_created and with that id as related_id; the step that answers
\* it with an error, and the insert of the task itself, append none; no other
\* step appends a task_created record, and no id has two of them.
C7_TaskCreatedOnce ==
  /\ [](\A i \in 1..Len(activity) :
          activity[i].type = "task_created" =>
            Cardinality(Records("task_created", activity[i].related_id)) = 1)
  /\ [][ /\ (Sends /\ resp'.op = "create_task" /\ resp'.status = 200) =>
              /\ Len(activity') = Len(activity) + 1
              /\ SubSeq(activity', 1, Len(activity)) = activity
              /\ activity'[Len(activity')].type = "task_created"
              /\ activity'[Len(activity')].related_id = resp'.id
              /\ OidValid(resp'.id) /\ oid(resp'.id) < nextId
         /\ (Sends /\ resp'.op = "create_task" /\ resp'.status # 200) => activity' = activity
         /\ task' # task => activity' = activity
         /\ (Len(activity') > Len(activity) /\ activity'[Len(activity')].type = "task_created") =>
              (Sends /\ resp'.op = "create_task" /\ resp'.status = 200) ]_vars

\* A POST /api/tasks was answered with the id of the new task and its record
\* is the last of the collection.
C7_Witness ==
  /\ resp.op = "create_task" /\ resp.status = 200
  /\ oid(resp.id) \in DOMAIN task
  /\ Len(activity) = 2
  /\ activity[2].type = "task_created" /\ activity[2].related_id = resp.id

\* ------------------------------------------------------------ C8
LoggedType(op) ==
  CASE op = "create_task" -> "task_created"
    [] op = "update_task" -> "task_updated"
    [] op = "delete_task" -> "task_deleted"
    [] op = "create_worklog" -> "work_logged"
    [] OTHER -> "none"

\* C8: every step leaves the stored activity records as they were, in place
\* and unchanged, and appends at most one; a step that appends one is the
\* successful answer to a task create, update or delete or a worklog create.
C8_ActivityAppendOnly ==
  [][ /\ Len(activity') >= Len(activity)
      /\ Len(activity') <= Len(activity) + 1
      /\ SubSeq(activity', 1, Len(activity)) = activity
      /\ activity' # activity =>
           /\ Sends
           /\ resp'.status = 200
           /\ LoggedType(resp'.op) = activity'[Len(activity')].type
           /\ LoggedType(resp'.op) # "none" ]_vars

\* The task of a task_created record was deleted and the record is in place.
C8_Witness ==
  /\ 1 \notin DOMAIN task
  /\ Len(activity) = 2
  /\ activity[1] = InitActivity
  /\ activity[2].type = "task_deleted" /\ activity[2].related_id = StrOf(1)

\* ------------------------------------------------------------ C9
\* C9: with a store that answers, the activities list holds at most limit
\* records, the most recent ones, newest first.
C9_AtMostLimit ==
  (resp.op = "list_activities" /\ dbMode = "ok") =>
     /\ Len(resp.items) <= resp.arg
     /\ \E o \in SortedDesc(activity) :
          resp.items = [i \in 1..Min(resp.arg, Len(o)) |-> SerializeActivity(o[i], activity[o[i]])]

\* ------------------------------------------------------------ C10
RECURSIVE Copies(_, _)
Copies(bag, rs) ==
  IF rs = {} THEN 0
  ELSE LET r == CHOOSE x \in rs : TRUE
       IN CopiesIn(r, bag) + Copies(bag, rs \ {r})

\* The delete requests for task x that have removed it and not yet answered.
InFlightDeletes(x) ==
  Copies(pending, {r \in BagToSet(pending) : r.op = "delete_task" /\ r.resp.id = StrOf(x)})

WasTask(x) ==
  \/ x = 1
  \/ Records("task_created", StrOf(x)) # {}
  \/ \E r \in BagToSet(pending) : r.op = "create_task" /\ r.resp.id = StrOf(x)

\* C10: with a store that answers, whatever the interleaving, a task is
\* removed by exactly one DELETE: of the requests for one id, one finds the
\* task, removes it and appends the one task_deleted record of that id as it
\* answers {ok}; each other is answered 404 and changes nothing.  A DELETE of
\* a note is answered {ok} as it removes the note and 404 when there is none.
\* An id, once removed, is never in its collection again.
C10_DeleteOnce ==
  /\ [](dbMode = "ok" =>
          \A x \in 1..(nextId - 1) :
             LET n == Cardinality(Records("task_deleted", StrOf(x))) + InFlightDeletes(x)
             IN /\ n <= 1
                /\ n = 1 => x \notin DOMAIN task
                /\ (WasTask(x) /\ x \notin DOMAIN task) => n = 1)
  /\ [][ dbMode = "ok" =>
         /\ (Sends /\ resp'.op = "delete_task" /\ OidValid(resp'.id)) =>
              \/ /\ resp'.status = 200
                 /\ activity' = Append(activity, activity'[Len(activity')])
                 /\ activity'[Len(activity')].type = "task_deleted"
                 /\ activity'[Len(activity')].related_id = resp'.id
                 /\ oid(resp'.id) \notin DOMAIN task
              \/ /\ resp'.status = 404
                 /\ oid(resp'.id) \notin DOMAIN task
                 /\ UNCHANGED <<task, worklog, note, activity, pending>>
         /\ (Sends /\ resp'.op = "delete_note" /\ OidValid(resp'.id)) =>
              \/ /\ resp'.status = 200
                 /\ oid(resp'.id) \in DOMAIN note
                 /\ note' = Remove(note, oid(resp'.id))
              \/ /\ resp'.status = 404
                 /\ oid(resp'.id) \notin DOMAIN note
                 /\ UNCHANGED <<task, worklog, note, activity, pending>>
         /\ \A i \in (DOMAIN task') \ (DOMAIN task) : i >= nextId
         /\ \A i \in (DOMAIN note') \ (DOMAIN note) : i >= nextId ]_vars

\* A DELETE of task 1 was answered 404 while the DELETE that removed the task
\* has not yet written its activity record.
C10_Witness ==
  /\ dbMode = "ok"
  /\ InFlightDeletes(1) = 1
  /\ resp.op = "delete_task" /\ resp.id = StrOf(1) /\ resp.status = 404
====
